---- MODULE Spec2Model ----
(***************************************************************************)
(* terminal_dungeon: the raycaster camera (camera.py), the game engine     *)
(* loop with its collision-checked movement (engine.py) and the asset      *)
(* readers (read_assets.py, sprite.py).                                    *)
(*                                                                         *)
(* Numbers.  Lengths (fov, the entries of initial_plane) are integers in   *)
(* thousandths: 1.001 is 1001, 0.001 is 1, fov 0.66 is 660.  Angles are    *)
(* exact points of the lattice  a * (2*pi/Turn) + k * delta,  where        *)
(* delta = atan2(0.001, 1.001) is the angle of the vector (1.001, 0.001);  *)
(* delta is not a rational multiple of pi, so two lattice angles are equal *)
(* modulo 2*pi exactly when their (a mod Turn, k) agree.  A matrix that is *)
(* a product M @ R(rot) of an integer matrix M (thousandths) and a         *)
(* rotation is kept as the pair [m, rot]; this is real arithmetic, exact,  *)
(* so "within floating tolerance" reads as equality of lattice points: the *)
(* smallest non-zero lattice difference is delta, about 1e-3 rad.          *)
(***************************************************************************)
EXTENDS Integers, Sequences, FiniteSets, TLC

\* lattice steps in a quarter turn (pi/2)
Quarter == 2
\* largest |k| (multiples of delta) an angle of the model carries
MaxDrift == 2

Turn == 4 * Quarter

Abs(n) == IF n < 0 THEN -n ELSE n
Sgn(n) == IF n > 0 THEN 1 ELSE IF n < 0 THEN -1 ELSE 0

---------------------------------------------------------------------------
(* Angles *)

Ang(a, k) == [a |-> a % Turn, k |-> k]
Zero == Ang(0, 0)
\* atan2(0.001, 1.001): the angle of row 0 of initial_plane
Delta == Ang(0, 1)
AngAdd(s, t) == Ang(s.a + t.a, s.k + t.k)
AngNeg(t) == Ang(Turn - t.a, -t.k)
QuarterTurns(n) == Ang(n * Quarter, 0)

\* sign of cos(t) and of sin(t); |k| * delta stays below one lattice step
CosSign(t) ==
    IF t.a % Quarter # 0
    THEN (IF t.a < Quarter \/ t.a > 3 * Quarter THEN 1 ELSE -1)
    ELSE CASE t.a \div Quarter = 0 -> 1
           [] t.a \div Quarter = 1 -> -Sgn(t.k)
           [] t.a \div Quarter = 2 -> -1
           [] OTHER -> Sgn(t.k)
SinSign(t) ==
    IF t.a % Quarter # 0
    THEN (IF t.a < 2 * Quarter THEN 1 ELSE -1)
    ELSE CASE t.a \div Quarter = 0 -> Sgn(t.k)
           [] t.a \div Quarter = 1 -> 1
           [] t.a \div Quarter = 2 -> -Sgn(t.k)
           [] OTHER -> -1

---------------------------------------------------------------------------
(* camera.py *)

\* A variant of rotation_matrix that takes the sine of |theta| (theta in (-pi, pi]).
rotation_matrix_abs(theta) ==
    [m |-> <<<<1000, 0>>, <<0, 1000>>>>,
     rot |-> IF theta.a > 2 * Quarter \/ (theta.a = 0 /\ theta.k < 0)
             THEN AngNeg(theta) ELSE theta]
\* [[cos, sin], [-sin, cos]]: the identity (1000 thousandths) turned by theta
rotation_matrix(theta) == [m |-> <<<<1000, 0>>, <<0, 1000>>>>, rot |-> theta]

\* A @ B for B a rotation matrix: (M @ R(s)) @ R(t) = M @ R(s + t)
MatMul(A, B) == [m |-> A.m, rot |-> AngAdd(A.rot, B.rot)]

\* row i of a matrix (numpy row 0 is row 1 here), as a vector base @ R(rot)
Row(P, i) == [base |-> P.m[i], rot |-> P.rot]

initial_plane(fov) == [m |-> <<<<1001, 1>>, <<0, fov>>>>, rot |-> Zero]

build_plane(theta, fov) == MatMul(initial_plane(fov), rotation_matrix(theta))

\* np.arctan2(v.y, v.x): the angle of the base vector plus the rotation
BaseAngle(b) ==
    CASE b = <<1001, 1>> -> Delta
      [] b[2] = 0 /\ b[1] > 0 -> Zero
      [] b[1] = 0 /\ b[2] > 0 -> QuarterTurns(1)
      [] b[2] = 0 /\ b[1] < 0 -> QuarterTurns(2)
      [] b[1] = 0 /\ b[2] < 0 -> QuarterTurns(3)
      [] OTHER -> Zero
arctan2(v) == AngAdd(BaseAngle(v.base), v.rot)

\* np.linalg.norm(v): a rotation keeps the length of the base vector
norm(v) == IF v.base[1] = 0 THEN Abs(v.base[2]) ELSE Abs(v.base[1])

\* The theta property: x2, x1 = plane[0]; arctan2(x1, x2)
theta_get(cam) == arctan2(Row(cam.plane, 1))
\* The fov property: norm(plane[1])
fov_get(cam) == norm(Row(cam.plane, 2))

clamp_fov(fov) == IF fov > 1000 THEN 1000 ELSE IF fov < 0 THEN 0 ELSE fov

Camera(pos, theta, fov) == [pos |-> pos, plane |-> build_plane(theta, clamp_fov(fov))]

set_theta(cam, theta) == [cam EXCEPT !.plane = build_plane(theta, fov_get(cam))]

set_fov(cam, fov) == [cam EXCEPT !.plane = build_plane(theta_get(cam), fov)]

\* A variant of rotate that rebuilds the plane with the default fov.
rotate_rebuild(cam, theta) ==
    [cam EXCEPT !.plane = build_plane(AngAdd(cam.plane.rot, theta), 660)]
\* A variant of rotate whose rotation matrix takes sin(|theta|).
rotate_abs(cam, theta) ==
    [cam EXCEPT !.plane = MatMul(cam.plane, rotation_matrix_abs(theta))]
rotate(cam, theta) == [cam EXCEPT !.plane = MatMul(cam.plane, rotation_matrix(theta))]

\* The components of the vector base @ R(rot) when rot is a whole number of
\* quarter turns (cos and sin are 0, 1 or -1): (x*c - y*s, x*s + y*c).
OnAxis(t) == t.k = 0 /\ t.a % Quarter = 0
Components(v) ==
    LET x == v.base[1]
        y == v.base[2]
        n == v.rot.a \div Quarter
    IN CASE n = 0 -> <<x, y>>
         [] n = 1 -> <<-y, x>>
         [] n = 2 -> <<-x, -y>>
         [] OTHER -> <<y, -x>>

\* The sign of each component of the vector base @ R(rot): computed from the
\* components for a rotation by quarter turns, and from the sign of the cosine
\* and sine of the vector's angle otherwise (a base whose angle is on the lattice).
XSign(v) ==
    IF OnAxis(v.rot) THEN Sgn(Components(v)[1])
    ELSE IF v.base = <<0, 0>> THEN 0 ELSE CosSign(arctan2(v))
YSign(v) ==
    IF OnAxis(v.rot) THEN Sgn(Components(v)[2])
    ELSE IF v.base = <<0, 0>> THEN 0 ELSE SinSign(arctan2(v))

\* a * u + b * v for two vectors under the same rotation (rows of one plane)
VecComb(a, u, b, v) ==
    [base |-> <<a * u.base[1] + b * v.base[1], a * u.base[2] + b * v.base[2]>>, rot |-> u.rot]

---------------------------------------------------------------------------
(* The ray of output column x of a viewport `width` columns wide:           *)
(* plane[0] + (2*x/width - 1) * plane[1], here times width (> 0), which     *)
(* keeps the components integers and their signs.                           *)
ray_direction(cam, x, width) ==
    VecComb(width, Row(cam.plane, 1), 2 * x - width, Row(cam.plane, 2))

---------------------------------------------------------------------------
(* engine.py: movement.  A position is a pair of integers in units of      *)
(* 1/Sub of a map cell.                                                    *)

\* position units in one map cell
Sub == 2
\* longest displacement of one move on each axis, in position units
MaxStep == 3
\* most keys held down at once in the snapshot a frame handles
MaxKeysDown == 2

KEY_BINDINGS ==
    {"quit", "toggle_texture", "forward_1", "forward_2", "backward_1", "backward_2",
     "turn_left_1", "turn_left_2", "turn_right_1", "turn_right_2",
     "strafe_left", "strafe_right"}

STRAFE_ROT == rotation_matrix(QuarterTurns(3))

\* Python's int(): truncation towards zero
int(x) == IF x >= 0 THEN x \div Sub ELSE -((-x) \div Sub)

IndexError == -1

\* game_map[i, j] of a numpy array kept as a tuple of columns: an index in
\* -n..-1 counts from the end, one outside -n..n-1 raises IndexError
Wrap(i, n) == IF i < 0 THEN i + n ELSE i
MapGet(gm, i, j) ==
    IF i < -Len(gm) \/ i >= Len(gm) THEN IndexError
    ELSE IF j < -Len(gm[1]) \/ j >= Len(gm[1]) THEN IndexError
    ELSE gm[Wrap(i, Len(gm)) + 1][Wrap(j, Len(gm[1])) + 1]

\* the cell numpy indexes for a position
CellAt(gm, p) == MapGet(gm, int(p[1]), int(p[2]))

\* The result of a call: the camera after it, whether it raised IndexError, and
\* the branch the last _move_to took (1..3; 0: none, the camera stayed).
Moved(c, branch) == [cam |-> c, err |-> FALSE, branch |-> branch]
Raised(c) == [cam |-> c, err |-> TRUE, branch |-> 0]

\* A variant of _move_to whose second branch assigns (x, y).
move_to_slip(camera, game_map, pos) ==
    LET old_x == camera.pos[1]
        old_y == camera.pos[2]
        x == pos[1]
        y == pos[2]
        c1 == MapGet(game_map, int(x), int(y))
        c2 == MapGet(game_map, int(x), int(old_y))
        c3 == MapGet(game_map, int(old_x), int(y))
    IN IF c1 = IndexError THEN Raised(camera)
       ELSE IF c1 = 0 THEN Moved([camera EXCEPT !.pos = <<x, y>>], 1)
       ELSE IF c2 = IndexError THEN Raised(camera)
       ELSE IF c2 = 0 THEN Moved([camera EXCEPT !.pos = <<x, y>>], 2)
       ELSE IF c3 = IndexError THEN Raised(camera)
       ELSE IF c3 = 0 THEN Moved([camera EXCEPT !.pos = <<old_x, y>>], 3)
       ELSE Moved(camera, 0)
\* A variant of _move_to that tries the slide along y before the slide along x.
move_to_y_first(camera, game_map, pos) ==
    LET old_x == camera.pos[1]
        old_y == camera.pos[2]
        x == pos[1]
        y == pos[2]
        c1 == MapGet(game_map, int(x), int(y))
        c2 == MapGet(game_map, int(x), int(old_y))
        c3 == MapGet(game_map, int(old_x), int(y))
    IN IF c1 = IndexError THEN Raised(camera)
       ELSE IF c1 = 0 THEN Moved([camera EXCEPT !.pos = <<x, y>>], 1)
       ELSE IF c3 = IndexError THEN Raised(camera)
       ELSE IF c3 = 0 THEN Moved([camera EXCEPT !.pos = <<old_x, y>>], 3)
       ELSE IF c2 = IndexError THEN Raised(camera)
       ELSE IF c2 = 0 THEN Moved([camera EXCEPT !.pos = <<x, old_y>>], 2)
       ELSE Moved(camera, 0)
move_to(camera, game_map, pos) ==
    LET old_x == camera.pos[1]
        old_y == camera.pos[2]
        x == pos[1]
        y == pos[2]
        c1 == MapGet(game_map, int(x), int(y))
        c2 == MapGet(game_map, int(x), int(old_y))
        c3 == MapGet(game_map, int(old_x), int(y))
    IN IF c1 = IndexError THEN Raised(camera)
       ELSE IF c1 = 0 THEN Moved([camera EXCEPT !.pos = <<x, y>>], 1)
       ELSE IF c2 = IndexError THEN Raised(camera)
       ELSE IF c2 = 0 THEN Moved([camera EXCEPT !.pos = <<x, old_y>>], 2)
       ELSE IF c3 = IndexError THEN Raised(camera)
       ELSE IF c3 = 0 THEN Moved([camera EXCEPT !.pos = <<old_x, y>>], 3)
       ELSE Moved(camera, 0)

\* A variant of the lookups that reads the cell one past the truncated x.
lookups_ahead(camera, game_map, pos) ==
    LET l1 == <<int(pos[1]) + 1, int(pos[2])>>
        l2 == <<int(pos[1]) + 1, int(camera.pos[2])>>
        l3 == <<int(camera.pos[1]), int(pos[2])>>
    IN IF MapGet(game_map, l1[1], l1[2]) \in {IndexError, 0} THEN {l1}
       ELSE IF MapGet(game_map, l2[1], l2[2]) \in {IndexError, 0} THEN {l1, l2}
       ELSE {l1, l2, l3}
\* The index pairs the conditions of _move_to give to game_map[., .], in the
\* order of the if / elif chain: a later one is looked up only when the
\* earlier ones found a wall
lookups(camera, game_map, pos) ==
    LET l1 == <<int(pos[1]), int(pos[2])>>
        l2 == <<int(pos[1]), int(camera.pos[2])>>
        l3 == <<int(camera.pos[1]), int(pos[2])>>
    IN IF MapGet(game_map, l1[1], l1[2]) \in {IndexError, 0} THEN {l1}
       ELSE IF MapGet(game_map, l2[1], l2[2]) \in {IndexError, 0} THEN {l1, l2}
       ELSE {l1, l2, l3}

\* v @ R for a rotation matrix R
VecMul(v, R) == [base |-> v.base, rot |-> AngAdd(v.rot, R.rot)]

\* speed * dt * v in position units, for every dt >= 0 and every direction of
\* the quadrant (or axis) v points into: the components have the signs of v's,
\* or are 0 (a short step truncated), and are at most MaxStep long.
Steps(v) ==
    {d \in (-MaxStep..MaxStep) \X (-MaxStep..MaxStep) :
        /\ Sgn(d[1]) \in {0, XSign(v)}
        /\ Sgn(d[2]) \in {0, YSign(v)}}

is_pressed(pressed_keys, names) == \E n \in names : pressed_keys[n]

\* A variant of the rotation in which a left key wins over a right key.
turn_left_wins(camera, pressed_keys, r) ==
    LET left == is_pressed(pressed_keys, {"turn_left_1", "turn_left_2"})
        right == is_pressed(pressed_keys, {"turn_right_1", "turn_right_2"})
    IN IF left THEN rotate(camera, AngNeg(r))
       ELSE IF right THEN rotate(camera, r)
       ELSE camera
\* The rotation of _handle_keys (engine.py 241-244): r is rotation_speed * dt
turn(camera, pressed_keys, r) ==
    LET left == is_pressed(pressed_keys, {"turn_left_1", "turn_left_2"})
        right == is_pressed(pressed_keys, {"turn_right_1", "turn_right_2"})
    IN IF left /\ ~right THEN rotate(camera, AngNeg(r))
       ELSE IF right /\ ~left THEN rotate(camera, r)
       ELSE camera

\* The forward / backward move (engine.py 246-251): d is translation_speed * dt * plane[0]
walk(res, game_map, pressed_keys, d) ==
    LET forward == is_pressed(pressed_keys, {"forward_1", "forward_2"})
        backward == is_pressed(pressed_keys, {"backward_1", "backward_2"})
        p == res.cam.pos
    IN IF forward /\ ~backward THEN move_to(res.cam, game_map, <<p[1] + d[1], p[2] + d[2]>>)
       ELSE IF backward /\ ~forward THEN move_to(res.cam, game_map, <<p[1] - d[1], p[2] - d[2]>>)
       ELSE res

\* The strafe (engine.py 253-263): d @ STRAFE_ROT is translation_speed * dt *
\* plane[0] @ STRAFE_ROT, and strafe_right uses -STRAFE_ROT, the opposite vector.
\* Not reached when the walk raised.
strafe(res, game_map, pressed_keys, d) ==
    LET strafe_left == is_pressed(pressed_keys, {"strafe_left"})
        strafe_right == is_pressed(pressed_keys, {"strafe_right"})
        s == Components(VecMul([base |-> d, rot |-> Zero], STRAFE_ROT))
        p == res.cam.pos
    IN IF res.err THEN res
       ELSE IF strafe_left /\ ~strafe_right
       THEN move_to(res.cam, game_map, <<p[1] + s[1], p[2] + s[2]>>)
       ELSE IF strafe_right /\ ~strafe_left
       THEN move_to(res.cam, game_map, <<p[1] - s[1], p[2] - s[2]>>)
       ELSE res

\* _handle_keys after the toggle: turn, walk, strafe; r is rotation_speed * dt
\* and d is translation_speed * dt * plane[0], plane[0] read after the turn
handle_moves(camera, game_map, pressed_keys, r, d) ==
    strafe(walk(Moved(turn(camera, pressed_keys, r), 0), game_map, pressed_keys, d),
           game_map, pressed_keys, d)

\* what a frame may draw for d: the vectors along plane[0] after the turn
WalkSteps(camera, pressed_keys, r) ==
    IF is_pressed(pressed_keys, {"forward_1", "forward_2", "backward_1", "backward_2",
                                 "strafe_left", "strafe_right"})
    THEN Steps(Row(turn(camera, pressed_keys, r).plane, 1))
    ELSE {<<0, 0>>}

\* the keys the listener presses in the movement specification: one binding of
\* each movement
MoveKeys ==
    {"forward_1", "backward_2", "turn_left_1", "turn_right_2", "strafe_left", "strafe_right"}

\* rotation_speed * dt: a quarter or a half turn (every direction of a quadrant
\* has the same Steps, so finer turns add nothing to the moves)
TurnInputs == {QuarterTurns(1), QuarterTurns(2)}
TurnOf(pressed_keys) ==
    IF is_pressed(pressed_keys, {"turn_left_1", "turn_left_2", "turn_right_1", "turn_right_2"})
    THEN TurnInputs ELSE {Zero}

Down(K) == [n \in KEY_BINDINGS |-> n \in K]
KeysDown(pressed_keys) == {n \in KEY_BINDINGS : pressed_keys[n]}

\* 4 x 4 maps, game_map[x][y]: a wall ring around three empty cells and a
\* pillar, and a ring with a gap in its border
RingMap ==
    << <<1, 1, 1, 1>>,
       <<1, 0, 0, 1>>,
       <<1, 0, 2, 1>>,
       <<1, 1, 1, 1>> >>
GapMap ==
    << <<1, 0, 1, 1>>,
       <<1, 0, 0, 1>>,
       <<1, 0, 1, 1>>,
       <<1, 2, 1, 1>> >>
Maps == {RingMap, GapMap}
\* a 3 x 3 map with one empty cell, for the loop
CellMap == << <<1, 1, 1>>, <<1, 0, 1>>, <<1, 1, 1>> >>
\* a 3 x 4 map: a hall of two cells
HallMap == << <<1, 1, 1, 1>>, <<1, 0, 0, 1>>, <<2, 1, 1, 1>> >>

EmptyStarts(gm) ==
    {p \in (0..(Sub * Len(gm) - 1)) \X (0..(Sub * Len(gm[1]) - 1)) :
        /\ MapGet(gm, int(p[1]), int(p[2])) = 0
        /\ p[1] % Sub = 1 /\ p[2] % Sub = 1}

---------------------------------------------------------------------------
(* Inputs of the camera operations *)

ThetaInputs ==
    {Ang(a, 0) : a \in 0..(Turn - 1)} \cup {AngNeg(Delta), AngAdd(QuarterTurns(1), AngNeg(Delta))}
RotInputs == {Ang(a, 0) : a \in 1..(Turn - 1)} \cup {Delta, AngNeg(Delta)}
FovInputs == {-500, 0, 1, 660, 1000, 1500}
PosInputs == {<<3, 3>>, <<5, 3>>}

InDrift(cam) == Abs(cam.plane.rot.k) <= MaxDrift

\* widest viewport of the ray specification
MaxWidth == 4

---------------------------------------------------------------------------
(* engine.py: the loop of Engine._run on a build where _IS_WINDOWS is False *)

NoBuffer == <<0, 0>>
TermSizes == {<<4, 2>>, <<6, 3>>}
LoopKeys == {"quit", "toggle_texture", "forward_1"}
\* most on_press events of the toggle_texture key in a run
MaxPresses == 2

\* resized: bool = True (engine.py 139)
resized_init_false == FALSE
resized_init == TRUE

\* Raycaster.resize(width, height): the buffers are reallocated to that shape
caster_resize(width, height) == <<width, height>>

\* the toggle of _handle_keys (engine.py 220-222)
handle_toggle(pressed_keys, tex) ==
    IF pressed_keys["toggle_texture"]
    THEN [pressed |-> [pressed_keys EXCEPT !["toggle_texture"] = FALSE], textures |-> ~tex]
    ELSE [pressed |-> pressed_keys, textures |-> tex]

---------------------------------------------------------------------------
(* read_assets.py and sprite.py.  A map file is the tuple of its lines, a   *)
(* line the tuple of its digits; a texture file is named by its path.       *)

\* most texture files of each kind, and most records of the sprite json
MaxTextures == 2
MaxSprites == 2

Sprite(pos, texture_index) == [pos |-> pos, texture_index |-> texture_index]

\* np.array([[int(cell) for cell in line] for line in text.splitlines()]).T:
\* game_map[x][y] is digit x of line y
read_map(text) ==
    [x \in 1..Len(text[1]) |-> [y \in 1..Len(text) |-> text[y][x]]]

read_wall_textures(paths) == [i \in 1..Len(paths) |-> [wall |-> paths[i]]]
read_sprite_textures(paths) == [i \in 1..Len(paths) |-> [sprite |-> paths[i]]]

\* one Sprite for each record of the json, in order
iter_from_json(data) ==
    [i \in 1..Len(data) |-> Sprite(data[i].pos, data[i].texture_index)]

\* Raycaster(engine): a wall value N uses wall texture N - 1 and a sprite its
\* texture_index; an index with no loaded texture is a fatal error here
Raycaster(gm, sp, wt, st) ==
    IF /\ \A x \in 1..Len(gm) : \A y \in 1..Len(gm[x]) : gm[x][y] <= Len(wt)
       /\ \A i \in 1..Len(sp) : sp[i].texture_index \in 0..(Len(st) - 1)
    THEN "caster" ELSE "fatal"

\* A variant of __post_init__ that leaves the caster for later, unbuilt.
post_init_later(gm, sp, wt, st) == "caster"
\* Engine.__post_init__: self.caster = Raycaster(self)
post_init(gm, sp, wt, st) == Raycaster(gm, sp, wt, st)

\* the files a run may be given: 3 x 2 maps (two lines of three digits) with
\* one cell of any wall value, texture paths 1..n, sprite records
MapFiles == {<< <<1, 0, w>>, <<1, 1, 1>> >> : w \in 0..(MaxTextures + 1)}
Paths == {[i \in 1..n |-> i] : n \in 0..MaxTextures}
JsonRecords == {[pos |-> <<1, 1>>, texture_index |-> i] : i \in -1..MaxTextures}
JsonFiles == UNION {[1..n -> JsonRecords] : n \in 0..MaxSprites}

VARIABLES
    cam,        \* the Camera: [pos, plane]
    lastOp,     \* the last camera operation and its arguments
    prevOp,     \* the operation before it
    before,     \* the camera before the last operation
    ray,        \* the last ray generated: [x, width, dir], or NoRay
    game_map,   \* Engine.game_map
    pressed,    \* pressed_keys, by binding name
    last,       \* the result of the last _handle_keys moves
    textures,   \* the caster's texture mode
    pc,         \* where the main thread is in _run
    resized,    \* the flag set_resized sets
    term,       \* the terminal's size <<width, height>>
    local,      \* width, height read by _handle_resize
    buf,        \* the shape of the caster's buffers
    cast_done,  \* whether caster.cast() has been called
    listener,   \* the keyboard listener thread
    winch,      \* the disposition of SIGWINCH
    sprites,          \* Engine.sprites: a list of Sprite
    wall_textures,    \* Engine.wall_textures: a list, one texture for each path read
    sprite_textures,  \* Engine.sprite_textures: likewise
    presses,          \* on_press events of the toggle_texture key so far
    toggles,          \* caster.toggle_textures() calls so far
    frame_toggles,    \* caster.toggle_textures() calls of the frame in progress
    looked            \* the index pairs the last _move_to looked up in game_map

camVars == <<lastOp, prevOp, before, ray>>
loopVars == <<pc, resized, term, local, buf, cast_done, listener, winch>>
assetVars == <<sprites, wall_textures, sprite_textures>>
countVars == <<presses, toggles, frame_toggles>>
vars == <<cam, lastOp, prevOp, before, ray, game_map, pressed, last, textures,
          pc, resized, term, local, buf, cast_done, listener, winch,
          sprites, wall_textures, sprite_textures, presses, toggles, frame_toggles, looked>>

NoOp == [op |-> "none"]
NoRay == [x |-> -1]

\* the loop's variables in the specifications that do not run the loop
LoopOff ==
    /\ pc = "off" /\ resized = FALSE /\ term = NoBuffer /\ local = NoBuffer
    /\ buf = NoBuffer /\ cast_done = FALSE /\ listener = "off" /\ winch = "off"
NoCam == Camera(<<0, 0>>, Zero, 0)
\* one wall texture, one sprite texture and one sprite that uses it
AssetsOff ==
    /\ sprites = <<Sprite(<<3, 3>>, 0)>>
    /\ wall_textures = read_wall_textures(<<1>>)
    /\ sprite_textures = read_sprite_textures(<<1>>)
CountsOff == presses = 0 /\ toggles = 0 /\ frame_toggles = 0 /\ looked = {}
EngineOff ==
    /\ game_map = CellMap /\ pressed = Down({})
    /\ last = Moved(NoCam, 0) /\ textures = TRUE
    /\ AssetsOff /\ CountsOff
    /\ LoopOff
HistoryOff == lastOp = NoOp /\ prevOp = NoOp /\ before = NoCam /\ ray = NoRay

CamInit ==
    /\ \E p \in PosInputs, t \in ThetaInputs, f \in FovInputs :
          /\ cam = Camera(p, t, f)
          /\ lastOp = [op |-> "new", theta |-> t, fov |-> f]
    /\ prevOp = NoOp
    /\ before = cam
    /\ ray = NoRay
    /\ EngineOff

CamStep(new, op) ==
    /\ InDrift(new)
    /\ cam' = new
    /\ before' = cam
    /\ prevOp' = lastOp
    /\ lastOp' = op
    /\ UNCHANGED <<ray, game_map, assetVars, countVars, looked, pressed, last, textures, loopVars>>

SetTheta == \E t \in ThetaInputs : CamStep(set_theta(cam, t), [op |-> "set_theta", theta |-> t])

SetFov == \E f \in FovInputs : CamStep(set_fov(cam, f), [op |-> "set_fov", fov |-> f])

Rotate == \E t \in RotInputs : CamStep(rotate(cam, t), [op |-> "rotate", theta |-> t])

CamNext == SetTheta \/ SetFov \/ Rotate

SpecCamera == CamInit /\ [][CamNext]_vars

---------------------------------------------------------------------------
(* Ray generation for a camera fresh from the constructor, theta a whole    *)
(* number of quarter turns (the components of the ray are then integers).   *)

RayInit ==
    /\ \E p \in PosInputs, n \in 0..3, f \in FovInputs :
          /\ cam = Camera(p, QuarterTurns(n), f)
          /\ lastOp = [op |-> "new", theta |-> QuarterTurns(n), fov |-> f]
    /\ prevOp = NoOp
    /\ before = cam
    /\ ray = NoRay
    /\ EngineOff

CastColumn ==
    \E width \in 1..MaxWidth : \E x \in 0..(width - 1) :
        /\ ray' = [x |-> x, width |-> width, dir |-> ray_direction(cam, x, width)]
        /\ UNCHANGED <<cam, lastOp, prevOp, before, game_map, assetVars, countVars, looked, pressed, last, textures, loopVars>>

SpecRay == RayInit /\ [][CastColumn]_vars

---------------------------------------------------------------------------
(* _handle_keys, frame after frame, on the key table as the frame finds it. *)
(* The camera starts in an empty cell of the map.                           *)

MoveInit ==
    /\ game_map \in Maps
    /\ \E p \in EmptyStarts(game_map), n \in 0..3 : cam = Camera(p, QuarterTurns(n), 660)
    /\ pressed = Down({})
    /\ last = Moved(cam, 0)
    /\ textures = TRUE
    /\ AssetsOff /\ CountsOff
    /\ HistoryOff
    /\ LoopOff

\* on_press / on_release of the listener thread (engine.py 143-148), for the
\* keys the handler reads
MovePress ==
    /\ ~last.err
    /\ \E k \in MoveKeys :
          /\ Cardinality(KeysDown(pressed) \cup {k}) <= MaxKeysDown
          /\ pressed' = [pressed EXCEPT ![k] = TRUE]
    /\ UNCHANGED <<cam, last, textures, camVars, game_map, assetVars, countVars, looked, loopVars>>

MoveRelease ==
    /\ ~last.err
    /\ \E k \in KeysDown(pressed) : pressed' = [pressed EXCEPT ![k] = FALSE]
    /\ UNCHANGED <<cam, last, textures, camVars, game_map, assetVars, countVars, looked, loopVars>>

\* One call of _handle_keys.  An IndexError ends the program.
HandleKeys ==
    /\ ~last.err
    /\ \E r \in TurnOf(pressed) :
         \E d \in WalkSteps(cam, pressed, r) :
           LET t == handle_toggle(pressed, textures)
               res == handle_moves(cam, game_map, t.pressed, r, d)
           IN /\ pressed' = t.pressed
              /\ textures' = t.textures
              /\ last' = res
              /\ cam' = res.cam
    /\ UNCHANGED <<camVars, game_map, assetVars, countVars, looked, loopVars>>

MoveNext == MovePress \/ MoveRelease \/ HandleKeys

SpecMove == MoveInit /\ [][MoveNext]_vars

\* a position inside the grid
InGrid(gm, p) ==
    /\ 0 <= p[1] /\ p[1] < Sub * Len(gm)
    /\ 0 <= p[2] /\ p[2] < Sub * Len(gm[1])

\* C2: starting in an empty cell, after any sequence of _move_to calls of any
\* length the cell of the camera's position (the one game_map[int(x), int(y)]
\* reads) holds 0, and the camera is never inside a wall cell of the grid.
C2_NeverInWall ==
    /\ CellAt(game_map, cam.pos) = 0
    /\ InGrid(game_map, cam.pos) => game_map[cam.pos[1] \div Sub + 1][cam.pos[2] \div Sub + 1] = 0
\* the target cell was a wall and the camera slid along it (the second branch)
C2_Witness == last.branch = 2 /\ ~last.err /\ CellAt(game_map, cam.pos) = 0

---------------------------------------------------------------------------
(* One call of _handle_keys as a function of its inputs: a camera anywhere  *)
(* in an empty cell of the map and a key table K the listener left (at most *)
(* MaxKeysDown keys down), the keys being one binding of each movement and  *)
(* the second binding of two.                                               *)

FrameKeys == MoveKeys \cup {"forward_2", "turn_right_1"}

FrameStarts(gm) ==
    {p \in (0..(Sub * Len(gm) - 1)) \X (0..(Sub * Len(gm[1]) - 1)) : CellAt(gm, p) = 0}

FrameInit ==
    /\ game_map \in Maps
    /\ \E p \in FrameStarts(game_map), n \in 0..3 : cam = Camera(p, QuarterTurns(n), 660)
    /\ pressed = Down({})
    /\ last = Moved(NoCam, 0)
    /\ textures = TRUE
    /\ AssetsOff /\ CountsOff
    /\ HistoryOff
    /\ LoopOff

Frame ==
    /\ lastOp = NoOp
    /\ \E K \in SUBSET FrameKeys :
          /\ Cardinality(K) <= MaxKeysDown
          /\ \E r \in TurnOf(Down(K)) :
               \E d \in WalkSteps(cam, Down(K), r) :
                 LET t == handle_toggle(Down(K), textures)
                     res == handle_moves(cam, game_map, t.pressed, r, d)
                 IN /\ pressed' = t.pressed
                    /\ textures' = t.textures
                    /\ last' = res
                    /\ cam' = res.cam
                    /\ before' = cam
                    /\ lastOp' = [op |-> "handle_keys", keys |-> K]
    /\ UNCHANGED <<prevOp, ray, game_map, assetVars, countVars, looked, loopVars>>

SpecFrame == FrameInit /\ [][Frame]_vars

TurnLeftKeys == {"turn_left_1", "turn_left_2"}
TurnRightKeys == {"turn_right_1", "turn_right_2"}
ForwardKeys == {"forward_1", "forward_2"}
BackwardKeys == {"backward_1", "backward_2"}
StrafeKeys == {"strafe_left", "strafe_right"}
\* the cameras a frame can leave, from camera c on the key table K
Outcomes(c, K) ==
    UNION {{handle_moves(c, game_map, Down(K), r, d).cam : d \in WalkSteps(c, Down(K), r)} :
              r \in TurnOf(Down(K))}

\* C17: opposing inputs cancel within a frame.  With a turn-left and a
\* turn-right key down _handle_keys leaves the plane as it was; with a forward
\* and a backward key down it makes no move along the direction (the position
\* stays unless one strafe key is down, and the frame is then one of the
\* frames without the two keys); with both strafe keys down it does not
\* strafe (likewise); with no movement key down the camera is unchanged.
C17_OpposingInputsCancel ==
    lastOp.op = "handle_keys" =>
        LET K == lastOp.keys
            left == K \cap TurnLeftKeys # {}
            right == K \cap TurnRightKeys # {}
            forward == K \cap ForwardKeys # {}
            backward == K \cap BackwardKeys # {}
            strafe_left == "strafe_left" \in K
            strafe_right == "strafe_right" \in K
        IN /\ (left /\ right) =>
                /\ cam.plane = before.plane
                /\ cam \in Outcomes(before, K \ (TurnLeftKeys \cup TurnRightKeys))
           /\ (forward /\ backward) =>
                /\ (strafe_left = strafe_right) => cam.pos = before.pos
                /\ cam \in Outcomes(before, K \ (ForwardKeys \cup BackwardKeys))
           /\ (strafe_left /\ strafe_right) =>
                /\ (forward = backward) => cam.pos = before.pos
                /\ cam \in Outcomes(before, K \ StrafeKeys)
           /\ (K \subseteq {"quit", "toggle_texture"}) => cam = before
\* a frame with a turn-left and a turn-right key down, the camera as before
C17_Witness ==
    /\ lastOp.op = "handle_keys"
    /\ lastOp.keys = {"turn_left_1", "turn_right_1"}
    /\ cam = before /\ cam # NoCam
    /\ last.branch = 0 /\ ~last.err

---------------------------------------------------------------------------
(* _move_to, call after call, for every target within MaxStep of the camera *)

MoveToInit ==
    /\ game_map \in Maps
    /\ \E p \in EmptyStarts(game_map) : cam = Camera(p, Zero, 660)
    /\ pressed = Down({})
    /\ last = Moved(NoCam, 0)
    /\ textures = TRUE
    /\ AssetsOff /\ CountsOff
    /\ HistoryOff
    /\ LoopOff

\* _move_to(camera, game_map, target)
MoveToCall(target) ==
    LET res == move_to(cam, game_map, target)
    IN /\ ~last.err
       /\ cam' = res.cam
       /\ last' = res
       /\ before' = cam
       /\ lastOp' = [op |-> "move_to", pos |-> target]
       /\ looked' = lookups(cam, game_map, target)
       /\ UNCHANGED <<prevOp, ray, game_map, assetVars, countVars, pressed, textures, loopVars>>

MoveTo ==
    \E d \in (-MaxStep..MaxStep) \X (-MaxStep..MaxStep) :
        MoveToCall(<<cam.pos[1] + d[1], cam.pos[2] + d[2]>>)

SpecMoveTo == MoveToInit /\ [][MoveTo]_vars

\* C13: _move_to moves to (x, y) if the cell (int(x), int(y)) is empty, else to
\* (x, old_y) if the cell (int(x), int(old_y)) is empty, else to (old_x, y) if
\* the cell (int(old_x), int(y)) is empty, else leaves the position as it was
\* (as it does when a lookup is past the end of the map and raises); the map is
\* never modified.
C13_SlidePriority ==
    /\ [](lastOp.op = "move_to" /\ ~last.err =>
            LET old_x == before.pos[1]
                old_y == before.pos[2]
                x == lastOp.pos[1]
                y == lastOp.pos[2]
            IN cam.pos = IF CellAt(game_map, <<x, y>>) = 0 THEN <<x, y>>
                         ELSE IF CellAt(game_map, <<x, old_y>>) = 0 THEN <<x, old_y>>
                         ELSE IF CellAt(game_map, <<old_x, y>>) = 0 THEN <<old_x, y>>
                         ELSE <<old_x, old_y>>)
    /\ [](lastOp.op = "move_to" /\ last.err => cam.pos = before.pos)
    /\ [][game_map' = game_map]_vars
\* a diagonal move into a wall with both slides open: the slide along x won
C13_Witness ==
    /\ lastOp.op = "move_to" /\ ~last.err
    /\ lastOp.pos[1] # before.pos[1] /\ lastOp.pos[2] # before.pos[2]
    /\ CellAt(game_map, lastOp.pos) # 0
    /\ CellAt(game_map, <<lastOp.pos[1], before.pos[2]>>) = 0
    /\ CellAt(game_map, <<before.pos[1], lastOp.pos[2]>>) = 0
    /\ cam.pos = <<lastOp.pos[1], before.pos[2]>>

---------------------------------------------------------------------------
(* _move_to on a map with a wall all around, in moves shorter than a cell   *)

AllWalls(col) == \A j \in 1..Len(col) : col[j] # 0
Walled(gm) ==
    /\ AllWalls(gm[1]) /\ AllWalls(gm[Len(gm)])
    /\ \A i \in 1..Len(gm) : gm[i][1] # 0 /\ gm[i][Len(gm[i])] # 0

StrollInit ==
    /\ game_map \in {gm \in Maps \cup {CellMap, HallMap} : Walled(gm)}
    /\ \E p \in EmptyStarts(game_map) : cam = Camera(p, Zero, 660)
    /\ pressed = Down({})
    /\ last = Moved(NoCam, 0)
    /\ textures = TRUE
    /\ AssetsOff /\ CountsOff
    /\ HistoryOff
    /\ LoopOff

\* a move of less than one cell (Sub position units) on each axis
Stroll ==
    \E d \in (-(Sub - 1)..(Sub - 1)) \X (-(Sub - 1)..(Sub - 1)) :
        MoveToCall(<<cam.pos[1] + d[1], cam.pos[2] + d[2]>>)

SpecStroll == StrollInit /\ [][Stroll]_vars

\* C16: on a map whose border is all walls, from an empty interior cell and in
\* moves of less than one cell on each axis, every index pair _move_to looks
\* up is inside the map: no index is negative or past the end, nothing raises.
C16_LookupsInRange ==
    /\ ~last.err
    /\ \A l \in looked :
          /\ 0 <= l[1] /\ l[1] < Len(game_map)
          /\ 0 <= l[2] /\ l[2] < Len(game_map[1])
\* all three lookups were made, the first in the last column of the map
C16_Witness ==
    /\ lastOp.op = "move_to" /\ Cardinality(looked) = 3
    /\ \E l \in looked : l[1] = Len(game_map) - 1 /\ l[2] = 0

---------------------------------------------------------------------------
(* Engine._run from the try (engine.py 160): the listener is started and    *)
(* set_resized is the SIGWINCH handler.  The main thread goes through pc;   *)
(* the listener thread and the signal handler run between its steps.        *)

LoopInit ==
    /\ game_map = CellMap
    /\ cam = Camera(<<2, 2>>, Zero, 660)
    /\ pressed = Down({})
    /\ last = Moved(cam, 0)
    /\ textures = TRUE
    /\ AssetsOff /\ CountsOff
    /\ HistoryOff
    /\ pc = "while"
    /\ resized = resized_init
    /\ term \in TermSizes
    /\ local = NoBuffer
    /\ buf = NoBuffer
    /\ cast_done = FALSE
    /\ listener = "running"
    /\ winch = "set_resized"

\* while not pressed_keys[KEY_BINDINGS["quit"]] (engine.py 163)
While ==
    /\ pc = "while"
    /\ pc' = IF pressed["quit"] THEN "finally" ELSE "if_resized"
    /\ frame_toggles' = 0
    /\ UNCHANGED <<cam, camVars, game_map, assetVars, presses, toggles, looked, pressed, last,
                   textures, resized, term, local, buf, cast_done, listener, winch>>

\* if resized or _IS_WINDOWS and ... (engine.py 168), _IS_WINDOWS False
IfResized ==
    /\ pc = "if_resized"
    /\ pc' = IF resized THEN "get_size" ELSE "cast"
    /\ UNCHANGED <<cam, camVars, game_map, assetVars, countVars, looked, pressed, last, textures,
                   resized, term, local, buf, cast_done, listener, winch>>

\* width, height = os.get_terminal_size() (engine.py 202)
GetSize ==
    /\ pc = "get_size"
    /\ local' = term
    /\ pc' = "resize"
    /\ UNCHANGED <<cam, camVars, game_map, assetVars, countVars, looked, pressed, last, textures,
                   resized, term, buf, cast_done, listener, winch>>

\* curses.resizeterm(height, width); self.caster.resize(width - 1, height) (203-204)
Resize ==
    /\ pc = "resize"
    /\ buf' = caster_resize(local[1] - 1, local[2])
    /\ pc' = "clear"
    /\ UNCHANGED <<cam, camVars, game_map, assetVars, countVars, looked, pressed, last, textures,
                   resized, term, local, cast_done, listener, winch>>

\* resized = False (engine.py 170)
ClearResized ==
    /\ pc = "clear"
    /\ resized' = FALSE
    /\ pc' = "cast"
    /\ UNCHANGED <<cam, camVars, game_map, assetVars, countVars, looked, pressed, last, textures,
                   term, local, buf, cast_done, listener, winch>>

\* caster.cast() is called (engine.py 172) ...
Cast ==
    /\ pc = "cast"
    /\ cast_done' = TRUE
    /\ pc' = "casting"
    /\ UNCHANGED <<cam, camVars, game_map, assetVars, countVars, looked, pressed, last, textures,
                   resized, term, local, buf, listener, winch>>

\* ... and returns, the buffer rewritten
CastEnd ==
    /\ pc = "casting"
    /\ pc' = "blit"
    /\ UNCHANGED <<cam, camVars, game_map, assetVars, countVars, looked, pressed, last, textures,
                   resized, term, local, buf, cast_done, listener, winch>>

\* the addstr / refresh of every row of the buffer (engine.py 174-176)
Blit ==
    /\ pc = "blit"
    /\ pc' = "keys"
    /\ UNCHANGED <<cam, camVars, game_map, assetVars, countVars, looked, pressed, last, textures,
                   resized, term, local, buf, cast_done, listener, winch>>

\* _handle_keys: if pressed_keys[toggle_texture] (engine.py 220)
KeysTest ==
    /\ pc = "keys"
    /\ pc' = IF pressed["toggle_texture"] THEN "keys_toggle" ELSE "keys_move"
    /\ UNCHANGED <<cam, camVars, game_map, assetVars, countVars, looked, pressed, last, textures,
                   resized, term, local, buf, cast_done, listener, winch>>

\* A variant of the toggle that leaves the key's entry set.
KeysToggleHeld ==
    /\ pc = "keys_toggle"
    /\ toggles < MaxPresses + 1
    /\ textures' = ~textures
    /\ toggles' = toggles + 1
    /\ frame_toggles' = frame_toggles + 1
    /\ pc' = "keys_move"
    /\ UNCHANGED <<cam, camVars, game_map, assetVars, presses, looked, last, pressed,
                   resized, term, local, buf, cast_done, listener, winch>>
\* pressed_keys[toggle_texture] = False; caster.toggle_textures() (221-222)
KeysToggle ==
    /\ pc = "keys_toggle"
    /\ pressed' = [pressed EXCEPT !["toggle_texture"] = FALSE]
    /\ textures' = ~textures
    /\ toggles' = toggles + 1
    /\ frame_toggles' = frame_toggles + 1
    /\ pc' = "keys_move"
    /\ UNCHANGED <<cam, camVars, game_map, assetVars, presses, looked, last,
                   resized, term, local, buf, cast_done, listener, winch>>

\* the rest of _handle_keys (engine.py 224-263); an IndexError leaves the loop
KeysMove ==
    /\ pc = "keys_move"
    /\ \E r \in TurnOf(pressed) :
         \E d \in WalkSteps(cam, pressed, r) :
           LET res == handle_moves(cam, game_map, pressed, r, d)
           IN /\ last' = res
              /\ cam' = res.cam
              /\ pc' = IF res.err THEN "finally" ELSE "while"
    /\ UNCHANGED <<camVars, game_map, assetVars, countVars, looked, pressed, textures,
                   resized, term, local, buf, cast_done, listener, winch>>

\* A variant of the finally block without listener.stop().
FinallyNoStop ==
    /\ pc = "finally"
    /\ winch' = "SIG_DFL"
    /\ pc' = "done"
    /\ UNCHANGED <<cam, camVars, game_map, assetVars, countVars, looked, pressed, last, textures,
                   resized, term, local, buf, cast_done, listener>>
\* finally: listener.stop(); signal.signal(SIGWINCH, SIG_DFL) (engine.py 180-187)
Finally ==
    /\ pc = "finally"
    /\ listener' = "stopped"
    /\ winch' = "SIG_DFL"
    /\ pc' = "done"
    /\ UNCHANGED <<cam, camVars, game_map, assetVars, countVars, looked, pressed, last, textures,
                   resized, term, local, buf, cast_done>>

\* A variant of on_press that moves the camera itself when a forward key goes down.
OnPressWalk ==
    /\ listener = "running"
    /\ \E k \in LoopKeys :
          /\ k = "toggle_texture" => presses < MaxPresses
          /\ pressed' = [pressed EXCEPT ![k] = TRUE]
          /\ presses' = IF k = "toggle_texture" THEN presses + 1 ELSE presses
          /\ cam' = IF k = "forward_1"
                    THEN move_to(cam, game_map, <<cam.pos[1] + 1, cam.pos[2]>>).cam
                    ELSE cam
    /\ UNCHANGED <<camVars, game_map, assetVars, toggles, frame_toggles, looked, last,
                   textures, loopVars>>
\* on_press and on_release, on the listener thread (engine.py 143-148)
OnPress ==
    /\ listener = "running"
    /\ \E k \in LoopKeys :
          /\ k = "toggle_texture" => presses < MaxPresses
          /\ pressed' = [pressed EXCEPT ![k] = TRUE]
          /\ presses' = IF k = "toggle_texture" THEN presses + 1 ELSE presses
    /\ UNCHANGED <<cam, camVars, game_map, assetVars, toggles, frame_toggles, looked, last,
                   textures, loopVars>>

OnRelease ==
    /\ listener = "running"
    /\ \E k \in LoopKeys : pressed' = [pressed EXCEPT ![k] = FALSE]
    /\ UNCHANGED <<cam, camVars, game_map, assetVars, countVars, looked, last, textures, loopVars>>

\* The terminal changes size; SIGWINCH runs set_resized (engine.py 150-152)
\* between two steps of the main thread while it is the handler.
Winch ==
    /\ \E size \in TermSizes \ {term} : term' = size
    /\ resized' = IF winch = "set_resized" THEN TRUE ELSE resized
    /\ UNCHANGED <<cam, camVars, game_map, assetVars, countVars, looked, pressed, last, textures,
                   pc, local, buf, cast_done, listener, winch>>

LoopNext ==
    \/ While \/ IfResized \/ GetSize \/ Resize \/ ClearResized \/ Cast \/ CastEnd \/ Blit
    \/ KeysTest \/ KeysToggle \/ KeysMove \/ Finally
    \/ OnPress \/ OnRelease \/ Winch

SpecLoop == LoopInit /\ [][LoopNext]_vars

---------------------------------------------------------------------------
(* The loop with a listener that sees the quit and the toggle key only.     *)
(* The main thread keeps running: each call of an iteration returns.        *)

QuitKeys == {"quit", "toggle_texture"}

\* on_press and on_release (engine.py 143-148) for the keys of QuitKeys
QuitPress ==
    /\ listener = "running"
    /\ \E k \in QuitKeys :
          /\ k = "toggle_texture" => presses < MaxPresses
          /\ pressed' = [pressed EXCEPT ![k] = TRUE]
          /\ presses' = IF k = "toggle_texture" THEN presses + 1 ELSE presses
    /\ UNCHANGED <<cam, camVars, game_map, assetVars, toggles, frame_toggles, looked, last,
                   textures, loopVars>>

QuitRelease ==
    /\ listener = "running"
    /\ \E k \in QuitKeys : pressed' = [pressed EXCEPT ![k] = FALSE]
    /\ UNCHANGED <<cam, camVars, game_map, assetVars, countVars, looked, last, textures, loopVars>>

MainNext ==
    \/ While \/ IfResized \/ GetSize \/ Resize \/ ClearResized \/ Cast \/ CastEnd \/ Blit
    \/ KeysTest \/ KeysToggle \/ KeysMove \/ Finally

QuitNext == MainNext \/ QuitPress \/ QuitRelease \/ Winch

SpecQuit == LoopInit /\ [][QuitNext]_vars /\ WF_vars(MainNext)

\* the buffer shape the terminal's size asks for
Wanted == caster_resize(term[1] - 1, term[2])

\* C3: no viewport size change is lost: while the loop runs, a buffer that is
\* not sized for the terminal has a resize on its way (the flag is set, or
\* _handle_resize has read the terminal's size and is about to resize).
C3_NoResizeLost ==
    (pc \notin {"finally", "done"} /\ buf # Wanted) =>
        \/ resized
        \/ (pc = "resize" /\ local = term)

\* C4: caster.resize is called before the first caster.cast: no cast runs on
\* a buffer that no resize has sized.
C4_ResizeBeforeFirstCast == (pc = "cast" \/ cast_done) => buf # NoBuffer
C4_Witness == cast_done /\ pc = "blit" /\ buf = Wanted

---------------------------------------------------------------------------
(* Start-up: the asset files are read, the Engine is constructed, run() is  *)
(* called and the first frame is cast.                                      *)

LoadInit ==
    /\ pc = "read_map"
    /\ game_map = <<>> /\ sprites = <<>> /\ wall_textures = <<>> /\ sprite_textures = <<>>
    /\ cam = NoCam /\ pressed = Down({}) /\ last = Moved(NoCam, 0) /\ textures = TRUE
    /\ CountsOff /\ HistoryOff
    /\ resized = FALSE /\ term = NoBuffer /\ local = NoBuffer /\ buf = NoBuffer
    /\ cast_done = FALSE /\ listener = "off" /\ winch = "off"

LoadKeep == <<cam, camVars, pressed, last, textures, countVars, looked,
              resized, term, local, cast_done, listener, winch>>

ReadMap ==
    /\ pc = "read_map"
    /\ \E text \in MapFiles : game_map' = read_map(text)
    /\ pc' = "read_wall_textures"
    /\ UNCHANGED <<LoadKeep, buf, sprites, wall_textures, sprite_textures>>

ReadWallTextures ==
    /\ pc = "read_wall_textures"
    /\ \E paths \in Paths : wall_textures' = read_wall_textures(paths)
    /\ pc' = "read_sprite_textures"
    /\ UNCHANGED <<LoadKeep, buf, game_map, sprites, sprite_textures>>

ReadSpriteTextures ==
    /\ pc = "read_sprite_textures"
    /\ \E paths \in Paths : sprite_textures' = read_sprite_textures(paths)
    /\ pc' = "iter_from_json"
    /\ UNCHANGED <<LoadKeep, buf, game_map, sprites, wall_textures>>

IterFromJson ==
    /\ pc = "iter_from_json"
    /\ \E data \in JsonFiles : sprites' = iter_from_json(data)
    /\ pc' = "engine"
    /\ UNCHANGED <<LoadKeep, buf, game_map, wall_textures, sprite_textures>>

\* Engine(camera, game_map, sprites, wall_textures, sprite_textures)
NewEngine ==
    /\ pc = "engine"
    /\ pc' = IF post_init(game_map, sprites, wall_textures, sprite_textures) = "fatal"
             THEN "fatal" ELSE "run"
    /\ UNCHANGED <<LoadKeep, buf, game_map, assetVars>>

\* engine.run() up to the first cast: the first iteration resizes the buffer
Run ==
    /\ pc = "run"
    /\ \E size \in TermSizes : buf' = caster_resize(size[1] - 1, size[2])
    /\ pc' = "cast"
    /\ UNCHANGED <<LoadKeep, game_map, assetVars>>

LoadNext ==
    \/ ReadMap \/ ReadWallTextures \/ ReadSpriteTextures \/ IterFromJson
    \/ NewEngine \/ Run \/ Cast \/ CastEnd

SpecLoad == LoadInit /\ [][LoadNext]_vars

\* a wall value of the map, or a sprite's texture_index, that no loaded texture matches
NoTexture ==
    \/ \E x \in 1..Len(game_map) : \E y \in 1..Len(game_map[x]) :
          game_map[x][y] > 0 /\ game_map[x][y] - 1 >= Len(wall_textures)
    \/ \E i \in 1..Len(sprites) :
          sprites[i].texture_index < 0 \/ sprites[i].texture_index >= Len(sprite_textures)

C14_TogglesWithinPresses == toggles <= presses /\ frame_toggles <= 1
\* one press, one toggle, and a later frame has passed the test without one
C14_Witness ==
    /\ presses = 1 /\ toggles = 1
    /\ pc = "keys_move" /\ frame_toggles = 0

\* C15: once the quit key is down for good the loop ends; the loop test that
\* sees it pressed leaves the loop, after which nothing casts, handles keys or
\* changes the camera; when _run is done the listener is stopped and SIGWINCH
\* has its default handler.
C15_QuitTerminates ==
    /\ (<>[]pressed["quit"]) => <>(pc = "done")
    /\ [][(pc = "while" /\ pressed["quit"] /\ pc' # pc) => pc' = "finally"]_vars
    /\ [][(pc = "finally" \/ pc = "done") =>
             (pc' \in {"finally", "done"} /\ UNCHANGED <<cam, textures, toggles, buf>>)]_vars
    /\ [](pc = "done" => (listener = "stopped" /\ winch = "SIG_DFL"))
\* the loop ended on the quit key, after at least one frame
C15_Witness ==
    /\ pc = "done" /\ pressed["quit"] /\ ~last.err /\ cast_done /\ toggles > 0
    /\ listener = "stopped" /\ winch = "SIG_DFL"

\* C11: the camera, the map and the sprite list are not written while a cast
\* is in progress nor between a cast and its blit: a step of the listener
\* thread or of the signal handler (the main thread stays where it is) writes
\* only the key table and the resized flag, the map and the sprites are never
\* written, and the camera changes only in _handle_keys, after the cast and blit.
C11_CameraWrittenOnlyInHandleKeys ==
    [][/\ game_map' = game_map
       /\ sprites' = sprites
       /\ cam' # cam => pc = "keys_move"
       /\ pc \in {"cast", "casting", "blit"} => cam' = cam
       /\ pc' = pc => UNCHANGED <<cam, last, textures, local, buf, cast_done, listener, winch,
                                  wall_textures, sprite_textures, toggles>>]_vars
\* a later frame's blit is due, the camera has moved in an earlier frame, a key
\* is down and a SIGWINCH has come in since the resize
C11_Witness ==
    /\ pc = "blit" /\ resized /\ pressed["forward_1"]
    /\ cam.pos # <<2, 2>>

---------------------------------------------------------------------------
(* Claims about the camera *)

\* C1: the fov accessor lies in [0, 1] after every construct, set_fov, set_theta
\* and rotate; a fov below 0 given to the constructor or to the setter is stored
\* as exactly 0.0 and one above 1 as exactly 1.0.
C1_FovAlwaysClamped ==
    /\ 0 <= fov_get(cam) /\ fov_get(cam) <= 1000
    /\ lastOp.op \in {"new", "set_fov"} =>
          /\ lastOp.fov < 0 => fov_get(cam) = 0
          /\ lastOp.fov > 1000 => fov_get(cam) = 1000

\* C5: set_fov leaves the theta accessor as it was before the call and
\* set_theta leaves the fov accessor as it was, after any number of setter calls.
C5_SettersPreserveOther ==
    /\ lastOp.op = "set_fov" => theta_get(cam) = theta_get(before)
    /\ lastOp.op = "set_theta" => fov_get(cam) = fov_get(before)

\* C6: right after set_theta(t) the theta accessor yields t (modulo 2*pi), and
\* right after set_fov(f) with f in [0, 1] the fov accessor yields f.
C6_AccessorsReturnValuesSet ==
    /\ lastOp.op = "set_theta" => theta_get(cam) = lastOp.theta
    /\ (lastOp.op = "set_fov" /\ lastOp.fov \in 0..1000) => fov_get(cam) = lastOp.fov

\* C7: rotate(t) followed by rotate(-t) restores the plane to its value before
\* the two calls.
C7_RotateInverse ==
    [][(/\ lastOp.op = "rotate"
        /\ lastOp'.op = "rotate"
        /\ lastOp'.theta = AngNeg(lastOp.theta)) => cam'.plane = before.plane]_vars
C7_Witness ==
    /\ prevOp.op = "rotate" /\ lastOp.op = "rotate"
    /\ lastOp.theta = AngNeg(prevOp.theta)
    /\ cam.plane # before.plane
    /\ fov_get(cam) > 0

\* C8: rotate(t) leaves the camera position and the fov accessor as they were
\* before the call, for every t and after any number of rotations.
C8_RotateKeepsPosAndFov ==
    lastOp.op = "rotate" => (cam.pos = before.pos /\ fov_get(cam) = fov_get(before))
C8_Witness ==
    /\ prevOp.op = "rotate" /\ lastOp.op = "rotate"
    /\ cam.plane # before.plane
    /\ fov_get(cam) \notin {0, 660}

\* C9: both components of plane[0] are non-zero for every theta given to the
\* constructor or set_theta and after any sequence of rotate calls.
C9_DirectionNeverAxisAligned ==
    XSign(Row(cam.plane, 1)) # 0 /\ YSign(Row(cam.plane, 1)) # 0

\* C10: for every viewport width, every column x in [0, width) and every camera
\* built by the constructor, both components of the ray direction
\* plane[0] + (2*x/width - 1) * plane[1] are non-zero.
C10_NoAxisParallelRay ==
    ray # NoRay => (XSign(ray.dir) # 0 /\ YSign(ray.dir) # 0)

====
